---- MODULE Spec2Model ----
(***************************************************************************)
(* Checkers (draughts) engine of src/game.js: class CheckersGame and the   *)
(* setup screen that creates it.  The engine state is the object's fields; *)
(* each DOM event handler (square click, hint button, reset button, the    *)
(* in-game starter toggle) is one action.                                  *)
(***************************************************************************)
EXTENDS Integers, Sequences, FiniteSets, TLC

\* ----------------------------------------------------------------- bounds
\* Piece relocations explored from each starting position.
MaxMoves == 1

\* ------------------------------------------------------- program constants
BoardSize == 8
BlackRows == 3
RedFirstRow == 5
RedPromotionRow == 0
BlackPromotionRow == 7

\* ------------------------------------------------------------- data model
\* JS null in a board cell / selectedPiece.
Null == [color |-> "none", king |-> FALSE]
\* JS null in selectedSquare / move.capture.
NoSquare == <<-1, -1>>

Rows == 0 .. (BoardSize - 1)
Squares == Rows \X Rows
Colors == {"red", "black"}

VARIABLES
  board,            \* this.board[row][col]: a piece or Null
  currentPlayer,    \* "red", "black" or "null"
  selectedPiece,    \* the piece object selected, or Null
  selectedSquare,   \* <<row, col>> or NoSquare
  validMoves,       \* sequence of [row, col, capture]
  mustCapture,
  continueCapture,
  gameOver,
  winner,           \* argument of the last endGame call ("none" before any)
  toggleChecked,    \* checked state of #game-starter-toggle
  moves,            \* relocations made since the starting position (bounded)
  last,             \* the last handler run and what it did (history)
  lastTurn,         \* colour of the piece moved in the last completed turn
                    \* of this game, "none" before the first (history)
  turnColor         \* colour of the piece that began the pending chain,
                    \* "none" when no chain is pending (history)

vars == <<board, currentPlayer, selectedPiece, selectedSquare, validMoves,
          mustCapture, continueCapture, gameOver, winner, toggleChecked,
          moves, last, lastTurn, turnColor>>

\* ----------------------------------------------------------- pure helpers
\* Concatenation of ss[lo], ..., ss[hi] in this order (Array.push(...m)
\* in a loop), split in halves to keep the evaluation shallow.
RECURSIVE FlattenRange(_, _, _)
FlattenRange(ss, lo, hi) ==
  IF lo > hi THEN <<>>
  ELSE IF lo = hi THEN ss[lo]
  ELSE FlattenRange(ss, lo, (lo + hi) \div 2)
       \o FlattenRange(ss, ((lo + hi) \div 2) + 1, hi)

Flatten(ss) == FlattenRange(ss, 1, Len(ss))

isValidPosition(row, col) ==
  row >= 0 /\ row < BoardSize /\ col >= 0 /\ col < BoardSize

\* Mutant: the pieces set on the squares of odd parity.
initBoardOddSquares ==
  [row \in Rows |-> [col \in Rows |->
     IF row < BlackRows /\ (row + col) % 2 = 1
     THEN [color |-> "black", king |-> FALSE]
     ELSE IF row >= RedFirstRow /\ (row + col) % 2 = 1
     THEN [color |-> "red", king |-> FALSE]
     ELSE Null]]

initBoard ==
  [row \in Rows |-> [col \in Rows |->
     IF row < BlackRows /\ (row + col) % 2 = 0
     THEN [color |-> "black", king |-> FALSE]
     ELSE IF row >= RedFirstRow /\ (row + col) % 2 = 0
     THEN [color |-> "red", king |-> FALSE]
     ELSE Null]]

\* Mutant: the forward directions of the two colours swapped.
directionsSwapped(piece) ==
  IF piece.king
  THEN << <<-1, -1>>, <<-1, 1>>, <<1, -1>>, <<1, 1>> >>
  ELSE IF piece.color = "red"
  THEN << <<1, -1>>, <<1, 1>> >>
  ELSE << <<-1, -1>>, <<-1, 1>> >>

\* const directions of getNormalMoves and getCaptureMoves.
directions(piece) ==
  IF piece.king
  THEN << <<-1, -1>>, <<-1, 1>>, <<1, -1>>, <<1, 1>> >>
  ELSE IF piece.color = "red"
  THEN << <<-1, -1>>, <<-1, 1>> >>
  ELSE << <<1, -1>>, <<1, 1>> >>

\* Mutant: an occupied square is skipped (continue) and the slide goes on.
RECURSIVE kingSlidePastPieces(_, _, _, _, _, _)
kingSlidePastPieces(b, row, col, dRow, dCol, distance) ==
  LET newRow == row + dRow * distance
      newCol == col + dCol * distance
  IN IF ~isValidPosition(newRow, newCol) THEN <<>>
     ELSE IF b[newRow][newCol] # Null
     THEN kingSlidePastPieces(b, row, col, dRow, dCol, distance + 1)
     ELSE <<[row |-> newRow, col |-> newCol, capture |-> NoSquare]>>
          \o kingSlidePastPieces(b, row, col, dRow, dCol, distance + 1)

\* King branch of getNormalMoves: the while(true) loop of one direction.
RECURSIVE kingSlide(_, _, _, _, _, _)
kingSlide(b, row, col, dRow, dCol, distance) ==
  LET newRow == row + dRow * distance
      newCol == col + dCol * distance
  IN IF ~isValidPosition(newRow, newCol) THEN <<>>
     ELSE IF b[newRow][newCol] # Null THEN <<>>
     ELSE <<[row |-> newRow, col |-> newCol, capture |-> NoSquare]>>
          \o kingSlide(b, row, col, dRow, dCol, distance + 1)

\* Mutant: the step keeps the column (dCol left out).
manStepStraight(b, row, col, dRow, dCol) ==
  LET newRow == row + dRow
      newCol == col
  IN IF isValidPosition(newRow, newCol) /\ b[newRow][newCol] = Null
     THEN <<[row |-> newRow, col |-> newCol, capture |-> NoSquare]>>
     ELSE <<>>

\* Mutant: the destination is not tested for a piece.
manStepNoEmptyTest(b, row, col, dRow, dCol) ==
  LET newRow == row + dRow
      newCol == col + dCol
  IN IF isValidPosition(newRow, newCol)
     THEN <<[row |-> newRow, col |-> newCol, capture |-> NoSquare]>>
     ELSE <<>>

\* Non-king branch of getNormalMoves for one direction.
manStep(b, row, col, dRow, dCol) ==
  LET newRow == row + dRow
      newCol == col + dCol
  IN IF isValidPosition(newRow, newCol) /\ b[newRow][newCol] = Null
     THEN <<[row |-> newRow, col |-> newCol, capture |-> NoSquare]>>
     ELSE <<>>

getNormalMoves(b, row, col) ==
  LET piece == b[row][col]
      dirs == directions(piece)
  IN \* for (const [dRow, dCol] of directions), unrolled
     IF piece.king
     THEN kingSlide(b, row, col, dirs[1][1], dirs[1][2], 1)
          \o kingSlide(b, row, col, dirs[2][1], dirs[2][2], 1)
          \o kingSlide(b, row, col, dirs[3][1], dirs[3][2], 1)
          \o kingSlide(b, row, col, dirs[4][1], dirs[4][2], 1)
     ELSE manStep(b, row, col, dirs[1][1], dirs[1][2])
          \o manStep(b, row, col, dirs[2][1], dirs[2][2])

\* Mutant: the scan stops at the first landing square behind the enemy.
RECURSIVE kingScanOneLanding(_, _, _, _, _, _, _, _, _)
kingScanOneLanding(b, piece, row, col, dRow, dCol, distance, foundEnemy, enemyPos) ==
  LET checkRow == row + dRow * distance
      checkCol == col + dCol * distance
  IN IF ~isValidPosition(checkRow, checkCol) THEN <<>>
     ELSE LET currentSquare == b[checkRow][checkCol]
          IN IF ~foundEnemy
             THEN IF currentSquare = Null
                  THEN kingScanOneLanding(b, piece, row, col, dRow, dCol,
                                          distance + 1, FALSE, enemyPos)
                  ELSE IF currentSquare.color # piece.color
                  THEN kingScanOneLanding(b, piece, row, col, dRow, dCol,
                                          distance + 1, TRUE,
                                          <<checkRow, checkCol>>)
                  ELSE <<>>
             ELSE IF currentSquare = Null
                  THEN <<[row |-> checkRow, col |-> checkCol,
                          capture |-> enemyPos]>>
                  ELSE <<>>

\* Mutant: the colour of the first piece met is not tested.
RECURSIVE kingScanAnyPiece(_, _, _, _, _, _, _, _, _)
kingScanAnyPiece(b, piece, row, col, dRow, dCol, distance, foundEnemy, enemyPos) ==
  LET checkRow == row + dRow * distance
      checkCol == col + dCol * distance
  IN IF ~isValidPosition(checkRow, checkCol) THEN <<>>
     ELSE LET currentSquare == b[checkRow][checkCol]
          IN IF ~foundEnemy
             THEN IF currentSquare = Null
                  THEN kingScanAnyPiece(b, piece, row, col, dRow, dCol,
                                        distance + 1, FALSE, enemyPos)
                  ELSE kingScanAnyPiece(b, piece, row, col, dRow, dCol,
                                        distance + 1, TRUE,
                                        <<checkRow, checkCol>>)
             ELSE IF currentSquare = Null
                  THEN <<[row |-> checkRow, col |-> checkCol,
                          capture |-> enemyPos]>>
                       \o kingScanAnyPiece(b, piece, row, col, dRow, dCol,
                                           distance + 1, TRUE, enemyPos)
                  ELSE <<>>

\* King branch of getCaptureMoves: the while(true) loop of one direction.
RECURSIVE kingScan(_, _, _, _, _, _, _, _, _)
kingScan(b, piece, row, col, dRow, dCol, distance, foundEnemy, enemyPos) ==
  LET checkRow == row + dRow * distance
      checkCol == col + dCol * distance
  IN IF ~isValidPosition(checkRow, checkCol) THEN <<>>
     ELSE LET currentSquare == b[checkRow][checkCol]
          IN IF ~foundEnemy
             THEN IF currentSquare = Null
                  THEN kingScan(b, piece, row, col, dRow, dCol, distance + 1,
                                FALSE, enemyPos)
                  ELSE IF currentSquare.color # piece.color
                  THEN kingScan(b, piece, row, col, dRow, dCol, distance + 1,
                                TRUE, <<checkRow, checkCol>>)
                  ELSE <<>>
             ELSE IF currentSquare = Null
                  THEN <<[row |-> checkRow, col |-> checkCol,
                          capture |-> enemyPos]>>
                       \o kingScan(b, piece, row, col, dRow, dCol,
                                   distance + 1, TRUE, enemyPos)
                  ELSE <<>>

\* Mutant: the jumped piece's colour is not tested.
manJumpAnyPiece(b, piece, row, col, dRow, dCol) ==
  LET jumpRow == row + dRow
      jumpCol == col + dCol
      landRow == row + dRow * 2
      landCol == col + dCol * 2
  IN IF isValidPosition(jumpRow, jumpCol) /\ isValidPosition(landRow, landCol)
     THEN IF b[jumpRow][jumpCol] # Null /\ b[landRow][landCol] = Null
          THEN <<[row |-> landRow, col |-> landCol,
                  capture |-> <<jumpRow, jumpCol>>]>>
          ELSE <<>>
     ELSE <<>>

\* Mutant: a man also jumps backward (the row direction taken both ways).
manJumpEitherWay(b, piece, row, col, dRow, dCol) ==
  LET jump(d) ==
        LET jumpRow == row + d
            jumpCol == col + dCol
            landRow == row + d * 2
            landCol == col + dCol * 2
        IN IF /\ isValidPosition(jumpRow, jumpCol)
              /\ isValidPosition(landRow, landCol)
           THEN IF /\ b[jumpRow][jumpCol] # Null
                   /\ b[jumpRow][jumpCol].color # piece.color
                   /\ b[landRow][landCol] = Null
                THEN <<[row |-> landRow, col |-> landCol,
                        capture |-> <<jumpRow, jumpCol>>]>>
                ELSE <<>>
           ELSE <<>>
  IN jump(dRow) \o jump(-dRow)

\* Non-king branch of getCaptureMoves for one direction.
manJump(b, piece, row, col, dRow, dCol) ==
  LET jumpRow == row + dRow
      jumpCol == col + dCol
      landRow == row + dRow * 2
      landCol == col + dCol * 2
  IN IF isValidPosition(jumpRow, jumpCol) /\ isValidPosition(landRow, landCol)
     THEN IF /\ b[jumpRow][jumpCol] # Null
             /\ b[jumpRow][jumpCol].color # piece.color
             /\ b[landRow][landCol] = Null
          THEN <<[row |-> landRow, col |-> landCol,
                  capture |-> <<jumpRow, jumpCol>>]>>
          ELSE <<>>
     ELSE <<>>

getCaptureMoves(b, row, col) ==
  LET piece == b[row][col]
      dirs == directions(piece)
  IN \* for (const [dRow, dCol] of directions), unrolled
     IF piece.king
     THEN kingScan(b, piece, row, col, dirs[1][1], dirs[1][2], 1,
                   FALSE, NoSquare)
          \o kingScan(b, piece, row, col, dirs[2][1], dirs[2][2], 1,
                      FALSE, NoSquare)
          \o kingScan(b, piece, row, col, dirs[3][1], dirs[3][2], 1,
                      FALSE, NoSquare)
          \o kingScan(b, piece, row, col, dirs[4][1], dirs[4][2], 1,
                      FALSE, NoSquare)
     ELSE manJump(b, piece, row, col, dirs[1][1], dirs[1][2])
          \o manJump(b, piece, row, col, dirs[2][1], dirs[2][2])

\* Row-major scan of the board, as the nested for loops do.
getAllCaptureMoves(b, color) ==
  Flatten([i \in 1 .. BoardSize * BoardSize |->
    LET row == (i - 1) \div BoardSize
        col == (i - 1) % BoardSize
    IN IF b[row][col] # Null /\ b[row][col].color = color
       THEN getCaptureMoves(b, row, col)
       ELSE <<>>])

\* Mutant: the forced-capture test looks at the piece's own captures only.
validMovesOwnCaptureOnly(b, row, col, allCaptures) ==
  IF b[row][col] = Null THEN <<>>
  ELSE IF getCaptureMoves(b, row, col) # <<>>
  THEN getCaptureMoves(b, row, col)
  ELSE getNormalMoves(b, row, col)

\* Mutant: the forced-capture test dropped.
validMovesNoForce(b, row, col, allCaptures) ==
  IF b[row][col] = Null THEN <<>>
  ELSE getCaptureMoves(b, row, col) \o getNormalMoves(b, row, col)

\* Return value of getValidMoves, with allCaptures the list that its call
\* getAllCaptureMoves(piece.color) returns (a loop that calls getValidMoves
\* on pieces of one colour, on one board, gets the same list in every call).
validMovesWith(b, row, col, allCaptures) ==
  LET piece == b[row][col]
  IN IF piece = Null THEN <<>>
     ELSE IF allCaptures # <<>>
     THEN getCaptureMoves(b, row, col)
     ELSE getCaptureMoves(b, row, col) \o getNormalMoves(b, row, col)

\* Return value of getValidMoves.
getValidMoves(b, row, col) ==
  IF b[row][col] = Null THEN <<>>
  ELSE validMovesWith(b, row, col, getAllCaptureMoves(b, b[row][col].color))

countPieces(b, color) ==
  Cardinality({sq \in Squares :
    b[sq[1]][sq[2]] # Null /\ b[sq[1]][sq[2]].color = color})

\* The squares of color's pieces for which getValidMoves is non-empty, with
\* allCaptures the list getAllCaptureMoves(color) returns.
movablePiecesWith(b, color, allCaptures) ==
  {sq \in Squares :
     /\ b[sq[1]][sq[2]] # Null
     /\ b[sq[1]][sq[2]].color = color
     /\ validMovesWith(b, sq[1], sq[2], allCaptures) # <<>>}

movablePieces(b, color) ==
  movablePiecesWith(b, color, getAllCaptureMoves(b, color))

playerHasValidMoves(b, color) == movablePieces(b, color) # {}

\* this.mustCapture after a loop that calls getValidMoves on pieces of one
\* colour (playerHasValidMoves, showHint): every call writes the same value,
\* and no call is made when the colour has no piece.
mustCaptureAfterScan(b, color, allCaptures, before) ==
  IF \E sq \in Squares : b[sq[1]][sq[2]].color = color
  THEN allCaptures # <<>>
  ELSE before

isValidMove(s, row, col) ==
  \E i \in 1 .. Len(s.validMoves) :
    s.validMoves[i].row = row /\ s.validMoves[i].col = col


\* ------------------------------------------------- handlers as functions
\* The engine state as one record; the handlers below map record to record.
State ==
  [board |-> board, currentPlayer |-> currentPlayer,
   selectedPiece |-> selectedPiece, selectedSquare |-> selectedSquare,
   validMoves |-> validMoves, mustCapture |-> mustCapture,
   continueCapture |-> continueCapture, gameOver |-> gameOver,
   winner |-> winner]

\* Mutant: the call also stores its result in this.validMoves.
getValidMovesCallCaching(s, row, col) ==
  IF s.board[row][col] = Null THEN s
  ELSE [s EXCEPT !.mustCapture =
                   getAllCaptureMoves(s.board, s.board[row][col].color) # <<>>,
                 !.validMoves = getValidMoves(s.board, row, col)]

\* The engine state a call getValidMoves(row, col) leaves (lines 161, 165
\* assign this.mustCapture; an empty square returns at line 154).
getValidMovesCall(s, row, col) ==
  IF s.board[row][col] = Null THEN s
  ELSE [s EXCEPT !.mustCapture =
                   getAllCaptureMoves(s.board, s.board[row][col].color) # <<>>]

\* selectPiece on a square that holds a piece, with allCaptures the list
\* getAllCaptureMoves returns for that piece's colour.
selectPieceWith(s, row, col, allCaptures) ==
  IF s.continueCapture
  THEN [s EXCEPT !.selectedPiece = s.board[row][col],
                 !.selectedSquare = <<row, col>>,
                 !.validMoves = getCaptureMoves(s.board, row, col)]
  ELSE [s EXCEPT
          !.selectedPiece = s.board[row][col],
          !.selectedSquare = <<row, col>>,
          !.validMoves = validMovesWith(s.board, row, col, allCaptures),
          !.mustCapture = allCaptures # <<>>]

selectPiece(s, row, col) ==
  selectPieceWith(s, row, col,
                  getAllCaptureMoves(s.board, s.board[row][col].color))

\* Mutant: the continueCapture test of line 139 dropped.
deselectPieceAlways(s) ==
  [s EXCEPT !.selectedPiece = Null,
            !.selectedSquare = NoSquare,
            !.validMoves = <<>>]

deselectPiece(s) ==
  IF s.continueCapture THEN s
  ELSE [s EXCEPT !.selectedPiece = Null,
                 !.selectedSquare = NoSquare,
                 !.validMoves = <<>>]

switchPlayer(s) ==
  [s EXCEPT !.currentPlayer = IF @ = "red" THEN "black" ELSE "red"]

endGame(s, w) ==
  [s EXCEPT !.gameOver = TRUE, !.winner = w]

\* Mutant: the no-legal-moves test dropped, only the piece counts decide.
checkWinConditionCountOnly(s) ==
  IF countPieces(s.board, "red") = 0 THEN endGame(s, "black")
  ELSE IF countPieces(s.board, "black") = 0 THEN endGame(s, "red")
  ELSE s

\* Mutant: the winners of the two piece-count tests swapped.
checkWinConditionSwapped(s) ==
  IF countPieces(s.board, "red") = 0 THEN endGame(s, "red")
  ELSE IF countPieces(s.board, "black") = 0 THEN endGame(s, "black")
  ELSE LET allCaptures == getAllCaptureMoves(s.board, s.currentPlayer)
           s1 == [s EXCEPT !.mustCapture =
                    mustCaptureAfterScan(s.board, s.currentPlayer,
                                         allCaptures, @)]
       IN IF movablePiecesWith(s.board, s.currentPlayer, allCaptures) = {}
          THEN endGame(s1, IF s.currentPlayer = "red" THEN "black" ELSE "red")
          ELSE s1

checkWinCondition(s) ==
  IF countPieces(s.board, "red") = 0 THEN endGame(s, "black")
  ELSE IF countPieces(s.board, "black") = 0 THEN endGame(s, "red")
  ELSE LET allCaptures == getAllCaptureMoves(s.board, s.currentPlayer)
           s1 == [s EXCEPT !.mustCapture =
                    mustCaptureAfterScan(s.board, s.currentPlayer,
                                         allCaptures, @)]
       IN IF movablePiecesWith(s.board, s.currentPlayer, allCaptures) = {}
          THEN endGame(s1, IF s.currentPlayer = "red" THEN "black" ELSE "red")
          ELSE s1

\* Mutant: the destination is not compared, the first entry is taken.
findMoveAny(s, toRow, toCol) ==
  IF s.validMoves = <<>> THEN <<>> ELSE <<Head(s.validMoves)>>

\* The first entry of validMoves with the destination (Array.find), as a
\* sequence of length 0 or 1.
findMove(s, toRow, toCol) ==
  LET hit == SelectSeq(s.validMoves,
                       LAMBDA m : m.row = toRow /\ m.col = toCol)
  IN IF hit = <<>> THEN <<>> ELSE <<Head(hit)>>

\* Mutant: the promotion rows of the two colours exchanged.
wasPromotedSwappedRows(piece, toRow) ==
  /\ \/ piece.color = "red" /\ toRow = BlackPromotionRow
     \/ piece.color = "black" /\ toRow = RedPromotionRow
  /\ ~piece.king

\* wasPromoted of movePiece.
wasPromoted(piece, toRow) ==
  /\ \/ piece.color = "red" /\ toRow = RedPromotionRow
     \/ piece.color = "black" /\ toRow = BlackPromotionRow
  /\ ~piece.king

\* Mutant: the king flag is assigned shouldPromote, whatever it was.
boardAfterMoveKingIffOnRow(b, move, fromRow, fromCol) ==
  LET piece == b[fromRow][fromCol]
      b1 == [b EXCEPT ![move.row][move.col] = piece,
                      ![fromRow][fromCol] = Null]
      b2 == IF move.capture # NoSquare
            THEN [b1 EXCEPT ![move.capture[1]][move.capture[2]] = Null]
            ELSE b1
  IN [b2 EXCEPT ![move.row][move.col].king =
        \/ piece.color = "red" /\ move.row = RedPromotionRow
        \/ piece.color = "black" /\ move.row = BlackPromotionRow]

\* Mutant: the king flag is never set (piece.king = true left out).
boardAfterMoveNoPromotion(b, move, fromRow, fromCol) ==
  LET piece == b[fromRow][fromCol]
      b1 == [b EXCEPT ![move.row][move.col] = piece,
                      ![fromRow][fromCol] = Null]
  IN IF move.capture # NoSquare
     THEN [b1 EXCEPT ![move.capture[1]][move.capture[2]] = Null]
     ELSE b1

\* Mutant: the captured piece is left on the board.
boardAfterMoveKeepCaptured(b, move, fromRow, fromCol) ==
  LET piece == b[fromRow][fromCol]
      b1 == [b EXCEPT ![move.row][move.col] = piece,
                      ![fromRow][fromCol] = Null]
  IN IF wasPromoted(piece, move.row)
     THEN [b1 EXCEPT ![move.row][move.col].king = TRUE]
     ELSE b1

\* The board after the relocation, the capture and the promotion.
boardAfterMove(b, move, fromRow, fromCol) ==
  LET piece == b[fromRow][fromCol]
      b1 == [b EXCEPT ![move.row][move.col] = piece,
                      ![fromRow][fromCol] = Null]
      b2 == IF move.capture # NoSquare
            THEN [b1 EXCEPT ![move.capture[1]][move.capture[2]] = Null]
            ELSE b1
  IN IF wasPromoted(piece, move.row)
     THEN [b2 EXCEPT ![move.row][move.col].king = TRUE]
     ELSE b2

\* "End turn" tail of movePiece.
endTurn(s) ==
  checkWinCondition(
    switchPlayer(deselectPiece([s EXCEPT !.continueCapture = FALSE])))

\* Mutant: no early return after a promotion (the multi-jump test runs).
movePieceChainAfterPromotion(s, fromRow, fromCol, toRow, toCol) ==
  LET found == findMove(s, toRow, toCol)
  IN IF found = <<>> THEN s
     ELSE LET move == found[1]
              b3 == boardAfterMove(s.board, move, fromRow, fromCol)
              s3 == [s EXCEPT !.board = b3]
          IN IF /\ move.capture # NoSquare
                /\ getCaptureMoves(b3, toRow, toCol) # <<>>
             THEN selectPiece([s3 EXCEPT !.continueCapture = TRUE],
                              toRow, toCol)
             ELSE endTurn(s3)

\* Mutant: the multi-jump test dropped, every move ends the turn.
movePieceNoChain(s, fromRow, fromCol, toRow, toCol) ==
  LET found == findMove(s, toRow, toCol)
  IN IF found = <<>> THEN s
     ELSE endTurn([s EXCEPT !.board =
                     boardAfterMove(s.board, found[1], fromRow, fromCol)])

movePiece(s, fromRow, fromCol, toRow, toCol) ==
  LET found == findMove(s, toRow, toCol)
  IN IF found = <<>> THEN s
     ELSE LET move == found[1]
              piece == s.board[fromRow][fromCol]
              b3 == boardAfterMove(s.board, move, fromRow, fromCol)
              s3 == [s EXCEPT !.board = b3]
          IN IF wasPromoted(piece, toRow) THEN endTurn(s3)
             ELSE IF /\ move.capture # NoSquare
                     /\ getCaptureMoves(b3, toRow, toCol) # <<>>
             THEN selectPiece([s3 EXCEPT !.continueCapture = TRUE],
                              toRow, toCol)
             ELSE endTurn(s3)

\* Mutant: the gameOver test of line 91 dropped.
handleSquareClickNoGuard(s, row, col) ==
  LET piece == s.board[row][col]
  IN IF s.selectedPiece # Null /\ isValidMove(s, row, col)
     THEN movePiece(s, s.selectedSquare[1], s.selectedSquare[2], row, col)
     ELSE IF piece # Null /\ piece.color = s.currentPlayer
     THEN IF /\ s.continueCapture
             /\ s.selectedSquare # NoSquare
             /\ (s.selectedSquare[1] # row \/ s.selectedSquare[2] # col)
          THEN s
          ELSE selectPiece(s, row, col)
     ELSE deselectPiece(s)

handleSquareClick(s, row, col) ==
  LET piece == s.board[row][col]
  IN IF s.gameOver THEN s
     ELSE IF s.selectedPiece # Null /\ isValidMove(s, row, col)
     THEN movePiece(s, s.selectedSquare[1], s.selectedSquare[2], row, col)
     ELSE IF piece # Null /\ piece.color = s.currentPlayer
     THEN IF /\ s.continueCapture
             /\ s.selectedSquare # NoSquare
             /\ (s.selectedSquare[1] # row \/ s.selectedSquare[2] # col)
          THEN s
          ELSE selectPiece(s, row, col)
     ELSE deselectPiece(s)

resetGame(s) ==
  [board |-> initBoard, currentPlayer |-> "null", selectedPiece |-> Null,
   selectedSquare |-> NoSquare, validMoves |-> <<>>, mustCapture |-> FALSE,
   continueCapture |-> FALSE, gameOver |-> FALSE, winner |-> "none"]

\* piecesWithMoves of showHint, as the set Math.random draws from.
piecesWithMoves(s) == movablePieces(s.board, s.currentPlayer)

\* showHint with randomPiece the piece drawn (NoSquare when piecesWithMoves
\* is empty) and allCaptures the list getAllCaptureMoves(currentPlayer)
\* returns.
showHintWith(s, randomPiece, allCaptures) ==
  IF s.gameOver THEN s
  ELSE LET s1 == [s EXCEPT !.mustCapture =
                     mustCaptureAfterScan(s.board, s.currentPlayer,
                                          allCaptures, @)]
       IN IF randomPiece # NoSquare
          THEN selectPieceWith(s1, randomPiece[1], randomPiece[2],
                               allCaptures)
          ELSE s1

showHint(s, randomPiece) ==
  showHintWith(s, randomPiece, getAllCaptureMoves(s.board, s.currentPlayer))

\* change handler of #game-starter-toggle; checked is e.target.checked.
starterToggleChange(s, checked) ==
  [s EXCEPT !.currentPlayer = IF checked THEN "black" ELSE "red"]

\* new CheckersGame() followed by the start button's override of
\* currentPlayer with the side chosen on the setup screen.
newGame(startingPlayer) ==
  [board |-> initBoard, currentPlayer |-> startingPlayer,
   selectedPiece |-> Null, selectedSquare |-> NoSquare, validMoves |-> <<>>,
   mustCapture |-> FALSE, continueCapture |-> FALSE, gameOver |-> FALSE,
   winner |-> "none"]


\* ------------------------------------------------------ starting positions
\* The standard layout is 24 men; kings, promotions, chains and endings lie
\* tens of moves away from it.  Besides the new game, exploration therefore
\* starts from positions that recorded games reach: each game below is a
\* sequence of square clicks, replayed through handleSquareClick from the
\* new game, so each position is one the program reaches by play.
\* Recorded game, Red starting; it stops one move before its first promoting
\* capture with a further capture from the landing square.
GamePromotingCapture ==
  << <<5, 1>>, <<4, 2>>, <<2, 6>>, <<3, 7>>, <<5, 7>>, <<4, 6>>, <<2, 2>>,
    <<3, 3>>, <<6, 0>>, <<5, 1>>, <<1, 3>>, <<2, 2>>, <<4, 6>>, <<3, 5>>,
    <<2, 4>>, <<4, 6>>, <<4, 2>>, <<2, 4>>, <<1, 5>>, <<3, 3>>, <<7, 1>>,
    <<6, 0>>, <<2, 0>>, <<3, 1>>, <<5, 3>>, <<4, 4>>, <<3, 1>>, <<4, 2>>,
    <<6, 2>>, <<5, 3>>, <<2, 2>>, <<3, 1>>, <<4, 4>>, <<2, 2>>, <<1, 1>>,
    <<3, 3>>, <<5, 1>>, <<4, 0>>, <<4, 2>>, <<5, 1>>, <<4, 0>>, <<2, 2>>,
    <<0, 4>>, <<1, 3>>, <<2, 2>>, <<0, 4>>, <<0, 2>>, <<1, 1>>, <<6, 0>>,
    <<4, 2>>, <<2, 4>>, <<1, 1>>, <<2, 0>>, <<0, 4>>, <<2, 6>>, <<1, 7>>,
    <<3, 5>>, <<5, 3>>, <<4, 2>>, <<0, 0>>, <<1, 1>>, <<2, 4>>, <<1, 3>>,
    <<0, 6>>, <<1, 7>>, <<4, 2>>, <<3, 1>>, <<2, 0>>, <<4, 2>>, <<7, 3>>,
    <<6, 2>>, <<1, 1>>, <<2, 0>>, <<5, 5>>, <<4, 4>>, <<3, 5>>, <<5, 3>>,
    <<7, 1>>, <<1, 3>>, <<0, 4>>, <<2, 0>>, <<3, 1>>, <<0, 4>>, <<4, 0>>,
    <<7, 1>>, <<2, 6>>, <<4, 0>>, <<3, 1>>, <<2, 6>>, <<3, 5>>, <<3, 1>>,
    <<5, 3>>, <<2, 6>>, <<1, 7>>, <<3, 5>>, <<6, 6>>, <<5, 5>>, <<3, 5>>,
    <<4, 4>>, <<5, 5>>, <<3, 3>>, <<4, 6>>, <<5, 5>>, <<6, 4>>, <<4, 6>>,
    <<3, 7>>, <<5, 5>>, <<7, 7>>, <<6, 6>> >>

\* Recorded game, Red starting; it stops one move before a capture that continues while another piece can capture too.
GameChainWithRival ==
  << <<5, 3>>, <<4, 4>>, <<2, 2>>, <<3, 3>>, <<4, 4>>, <<2, 2>>, <<1, 3>>,
    <<3, 1>>, <<5, 7>>, <<4, 6>>, <<0, 4>>, <<1, 3>>, <<5, 1>>, <<4, 2>>,
    <<3, 1>>, <<5, 3>>, <<6, 2>>, <<4, 4>>, <<2, 4>>, <<3, 3>>, <<4, 4>>,
    <<2, 2>>, <<0, 4>>, <<0, 2>>, <<1, 3>>, <<0, 4>>, <<3, 1>>, <<2, 0>>,
    <<4, 2>>, <<7, 1>>, <<6, 2>>, <<4, 2>>, <<5, 1>>, <<6, 0>>, <<4, 2>>,
    <<1, 1>>, <<2, 2>>, <<4, 6>>, <<3, 7>>, <<2, 2>>, <<3, 3>>, <<4, 2>>,
    <<2, 4>>, <<1, 5>>, <<3, 3>>, <<3, 7>>, <<1, 5>>, <<0, 6>>, <<2, 4>>,
    <<5, 5>>, <<4, 4>>, <<3, 3>>, <<5, 5>>, <<6, 4>>, <<4, 6>>, <<2, 4>>,
    <<3, 5>>, <<4, 6>>, <<2, 4>>, <<1, 7>>, <<2, 6>>, <<7, 3>>, <<6, 4>>,
    <<2, 6>>, <<3, 5>>, <<2, 4>>, <<1, 5>>, <<3, 5>>, <<4, 6>>, <<6, 4>>,
    <<5, 3>>, <<0, 0>>, <<1, 1>>, <<7, 5>>, <<6, 4>>, <<4, 6>>, <<5, 7>>,
    <<1, 5>>, <<0, 4>>, <<5, 7>>, <<7, 5>>, <<0, 4>>, <<2, 2>>, <<1, 1>>,
    <<3, 3>>, <<5, 3>>, <<4, 2>> >>

\* Recorded game, Red starting; it stops one move before a capture of the last piece.
GameLastPiece ==
  << <<5, 5>>, <<4, 4>>, <<2, 4>>, <<3, 3>>, <<5, 1>>, <<4, 2>>, <<3, 3>>,
    <<5, 5>>, <<6, 6>>, <<4, 4>>, <<1, 5>>, <<2, 4>>, <<4, 4>>, <<3, 5>>,
    <<2, 4>>, <<4, 6>>, <<5, 7>>, <<3, 5>>, <<2, 6>>, <<4, 4>>, <<5, 3>>,
    <<3, 5>>, <<2, 2>>, <<3, 3>>, <<4, 2>>, <<2, 4>>, <<1, 1>>, <<2, 2>>,
    <<6, 2>>, <<5, 3>>, <<2, 2>>, <<3, 3>>, <<2, 4>>, <<1, 5>>, <<0, 4>>,
    <<2, 6>>, <<4, 4>>, <<6, 2>>, <<7, 3>>, <<5, 1>>, <<0, 2>>, <<1, 1>>,
    <<6, 4>>, <<5, 5>>, <<1, 7>>, <<2, 6>>, <<5, 5>>, <<4, 6>>, <<0, 6>>,
    <<1, 5>>, <<7, 5>>, <<6, 4>>, <<2, 0>>, <<3, 1>>, <<6, 4>>, <<5, 3>>,
    <<2, 6>>, <<3, 7>>, <<5, 1>>, <<4, 2>>, <<3, 3>>, <<5, 1>>, <<6, 0>>,
    <<4, 2>>, <<2, 0>>, <<0, 2>>, <<3, 7>>, <<5, 5>>, <<0, 2>>, <<5, 7>>,
    <<5, 5>>, <<6, 4>>, <<5, 3>>, <<4, 2>>, <<0, 0>>, <<1, 1>>, <<5, 7>>,
    <<6, 6>>, <<1, 5>>, <<2, 6>>, <<6, 6>>, <<0, 0>>, <<6, 4>>, <<7, 3>>,
    <<0, 0>>, <<3, 3>>, <<7, 3>>, <<4, 6>>, <<3, 3>>, <<6, 6>>, <<2, 6>>,
    <<3, 7>>, <<6, 6>>, <<5, 5>>, <<4, 6>>, <<6, 4>>, <<2, 0>>, <<7, 1>>,
    <<6, 0>>, <<2, 0>>, <<3, 1>>, <<6, 0>>, <<5, 1>>, <<3, 1>>, <<4, 0>>,
    <<5, 1>>, <<4, 2>>, <<4, 0>>, <<2, 2>>, <<4, 2>>, <<3, 3>>, <<2, 2>>,
    <<6, 6>>, <<7, 7>>, <<5, 5>>, <<3, 7>>, <<4, 6>> >>

\* Recorded game, Red starting; it stops one move before a move that leaves the opponent blocked.
GameBlocked ==
  << <<5, 7>>, <<4, 6>>, <<2, 6>>, <<3, 7>>, <<5, 5>>, <<4, 4>>, <<3, 7>>,
    <<5, 5>>, <<6, 4>>, <<4, 6>>, <<2, 4>>, <<3, 5>>, <<4, 6>>, <<2, 4>>,
    <<1, 5>>, <<3, 3>>, <<5, 5>>, <<6, 6>>, <<4, 4>>, <<2, 2>>, <<3, 3>>,
    <<4, 4>>, <<2, 2>>, <<1, 1>>, <<3, 3>>, <<5, 3>>, <<4, 4>>, <<3, 3>>,
    <<5, 5>>, <<7, 5>>, <<6, 6>>, <<2, 0>>, <<3, 1>>, <<6, 6>>, <<4, 4>>,
    <<3, 1>>, <<4, 2>>, <<5, 1>>, <<3, 3>>, <<0, 4>>, <<1, 5>>, <<4, 4>>,
    <<3, 5>>, <<1, 3>>, <<2, 4>>, <<3, 5>>, <<1, 3>>, <<0, 2>>, <<2, 4>>,
    <<4, 2>>, <<6, 2>>, <<5, 3>>, <<4, 2>>, <<6, 4>>, <<7, 3>>, <<5, 5>>,
    <<1, 5>>, <<2, 4>>, <<5, 5>>, <<4, 6>>, <<1, 7>>, <<2, 6>>, <<4, 6>>,
    <<3, 7>>, <<0, 0>>, <<1, 1>>, <<3, 7>>, <<1, 5>>, <<2, 4>>, <<3, 5>>,
    <<7, 1>>, <<6, 2>>, <<0, 6>>, <<2, 4>>, <<6, 2>>, <<5, 1>>, <<2, 4>>,
    <<3, 3>>, <<5, 1>>, <<4, 0>>, <<3, 5>>, <<4, 4>>, <<6, 0>>, <<5, 1>>,
    <<4, 4>>, <<5, 5>>, <<4, 0>>, <<3, 1>>, <<5, 5>>, <<6, 6>>, <<7, 7>>,
    <<5, 5>>, <<3, 3>>, <<4, 4>>, <<5, 5>>, <<3, 3>>, <<1, 1>>, <<2, 0>> >>

\* Recorded game, Red starting; it stops one move before a man about to step next to the far row.
GameSelfBlock ==
  << <<5, 3>>, <<4, 4>>, <<2, 6>>, <<3, 7>>, <<5, 7>>, <<4, 6>>, <<1, 5>>,
    <<2, 6>>, <<6, 6>>, <<5, 7>>, <<2, 2>>, <<3, 1>>, <<6, 4>>, <<5, 3>>,
    <<2, 6>>, <<3, 5>>, <<4, 4>>, <<2, 6>>, <<1, 7>>, <<3, 5>>, <<5, 5>>,
    <<4, 4>>, <<3, 7>>, <<5, 5>>, <<4, 4>>, <<2, 6>>, <<0, 6>>, <<1, 5>>,
    <<5, 3>>, <<4, 2>>, <<3, 1>>, <<5, 3>>, <<6, 2>>, <<4, 4>>, <<1, 5>>,
    <<3, 7>>, <<7, 1>>, <<6, 2>>, <<2, 4>>, <<3, 5>>, <<4, 4>>, <<2, 6>>,
    <<1, 3>>, <<2, 4>>, <<7, 5>>, <<6, 4>>, <<1, 1>>, <<2, 2>>, <<6, 4>>,
    <<4, 6>>, <<3, 7>>, <<5, 5>>, <<7, 7>>, <<6, 6>>, <<5, 5>>, <<7, 7>>,
    <<2, 6>>, <<1, 7>>, <<0, 0>>, <<1, 1>>, <<7, 3>>, <<6, 4>>, <<7, 7>>,
    <<3, 3>>, <<1, 7>>, <<0, 6>>, <<0, 4>>, <<1, 5>>, <<5, 1>>, <<4, 2>>,
    <<3, 3>>, <<5, 1>>, <<7, 3>>, <<5, 5>>, <<6, 0>>, <<5, 1>>, <<2, 4>>,
    <<3, 3>>, <<0, 6>>, <<2, 4>>, <<4, 2>>, <<5, 5>>, <<3, 3>>, <<4, 2>>,
    <<2, 4>>, <<2, 2>>, <<3, 3>>, <<2, 4>>, <<4, 2>>, <<2, 0>>, <<3, 1>>,
    <<4, 2>>, <<2, 0>>, <<1, 1>>, <<2, 2>>, <<5, 7>>, <<4, 6>>, <<0, 2>>,
    <<1, 1>>, <<2, 0>>, <<0, 2>>, <<2, 2>>, <<3, 3>>, <<5, 1>>, <<4, 2>>,
    <<3, 3>>, <<5, 1>>, <<0, 2>>, <<2, 4>>, <<5, 1>>, <<6, 2>>, <<4, 6>>,
    <<3, 7>>, <<6, 2>>, <<7, 1>>, <<2, 4>>, <<1, 5>>, <<7, 1>>, <<1, 7>>,
    <<1, 5>>, <<0, 4>>, <<1, 7>>, <<0, 6>>, <<3, 7>>, <<2, 6>>, <<0, 6>>,
    <<3, 3>>, <<0, 4>>, <<1, 5>>, <<3, 3>>, <<0, 6>> >>

\* Recorded game, Red starting; it stops one move before a king capture with several landing squares.
GameKingCapture ==
  << <<5, 7>>, <<4, 6>>, <<2, 6>>, <<3, 5>>, <<6, 6>>, <<5, 7>>, <<2, 2>>,
    <<3, 1>>, <<5, 1>>, <<4, 2>>, <<1, 5>>, <<2, 6>>, <<5, 3>>, <<4, 4>>,
    <<3, 1>>, <<5, 3>>, <<6, 4>>, <<4, 2>>, <<3, 5>>, <<5, 3>>, <<6, 2>>,
    <<4, 4>>, <<2, 6>>, <<3, 7>>, <<7, 7>>, <<6, 6>>, <<1, 3>>, <<2, 2>>,
    <<4, 6>>, <<3, 5>>, <<2, 4>>, <<4, 6>>, <<6, 4>>, <<7, 5>>, <<5, 3>>,
    <<2, 2>>, <<3, 1>>, <<6, 0>>, <<5, 1>>, <<1, 7>>, <<2, 6>>, <<5, 1>>,
    <<4, 0>>, <<0, 4>>, <<1, 5>>, <<4, 0>>, <<2, 2>>, <<1, 1>>, <<3, 3>>,
    <<5, 5>>, <<7, 7>>, <<5, 3>>, <<4, 4>>, <<7, 7>>, <<1, 1>>, <<7, 3>>,
    <<6, 2>>, <<2, 0>>, <<3, 1>>, <<4, 2>>, <<2, 0>>, <<0, 2>>, <<1, 3>>,
    <<2, 0>>, <<0, 2>>, <<0, 0>>, <<1, 1>>, <<0, 2>>, <<2, 4>>, <<1, 5>>,
    <<3, 3>>, <<6, 2>>, <<5, 3>>, <<3, 7>>, <<4, 6>>, <<5, 7>>, <<3, 5>>,
    <<1, 7>>, <<1, 1>>, <<2, 2>>, <<5, 3>>, <<4, 4>>, <<3, 3>>, <<5, 5>>,
    <<7, 1>>, <<6, 2>>, <<2, 2>>, <<3, 1>>, <<6, 2>>, <<5, 1>>, <<0, 6>>,
    <<1, 5>>, <<5, 1>>, <<4, 2>>, <<3, 1>>, <<5, 3>>, <<1, 7>>, <<0, 6>>,
    <<1, 5>>, <<2, 6>>, <<0, 6>>, <<1, 7>>, <<5, 3>>, <<6, 4>>, <<1, 7>>,
    <<5, 3>>, <<7, 5>>, <<5, 5>>, <<6, 4>> >>

\* Recorded game, Red starting; it stops one move before a king slide.
GameKingSlide ==
  << <<5, 7>>, <<4, 6>>, <<2, 4>>, <<3, 5>>, <<4, 6>>, <<2, 4>>, <<1, 5>>,
    <<3, 3>>, <<5, 5>>, <<4, 4>>, <<3, 3>>, <<5, 5>>, <<6, 6>>, <<4, 4>>,
    <<1, 3>>, <<2, 4>>, <<7, 7>>, <<6, 6>>, <<0, 4>>, <<1, 5>>, <<6, 4>>,
    <<5, 5>>, <<2, 2>>, <<3, 3>>, <<4, 4>>, <<2, 2>>, <<1, 1>>, <<3, 3>>,
    <<5, 1>>, <<4, 0>>, <<2, 0>>, <<3, 1>>, <<4, 0>>, <<2, 2>>, <<0, 0>>,
    <<1, 1>>, <<2, 2>>, <<0, 0>>, <<0, 2>>, <<1, 1>>, <<0, 0>>, <<2, 2>>,
    <<4, 4>>, <<2, 6>>, <<3, 7>>, <<7, 5>>, <<6, 4>>, <<2, 4>>, <<3, 5>>,
    <<4, 4>>, <<2, 6>>, <<0, 4>>, <<0, 6>>, <<1, 5>>, <<0, 4>>, <<2, 6>>,
    <<1, 7>>, <<3, 5>>, <<5, 5>>, <<4, 6>>, <<3, 7>>, <<5, 5>>, <<7, 7>>,
    <<5, 3>>, <<4, 4>>, <<3, 5>>, <<5, 3>>, <<7, 5>>, <<6, 2>>, <<5, 1>>,
    <<7, 7>>, <<5, 5>>, <<5, 1>>, <<4, 2>>, <<7, 5>>, <<2, 0>>, <<7, 3>>,
    <<6, 4>>, <<2, 0>>, <<7, 5>>, <<6, 0>>, <<5, 1>>, <<5, 5>>, <<3, 7>>,
    <<7, 1>>, <<6, 0>>, <<3, 7>>, <<2, 6>>, <<5, 1>>, <<4, 2>>, <<7, 5>>,
    <<3, 1>>, <<6, 0>>, <<5, 1>>, <<3, 1>>, <<4, 2>>, <<5, 1>>, <<3, 3>> >>

\* Recorded game, Red starting; it stops one move before a promotion by a simple move.
GameSimplePromotion ==
  << <<5, 5>>, <<4, 4>>, <<2, 2>>, <<3, 1>>, <<5, 1>>, <<4, 0>>, <<2, 6>>,
    <<3, 7>>, <<4, 0>>, <<2, 2>>, <<1, 3>>, <<3, 1>>, <<6, 6>>, <<5, 5>>,
    <<3, 1>>, <<4, 2>>, <<5, 3>>, <<3, 1>>, <<2, 0>>, <<4, 2>>, <<5, 7>>,
    <<4, 6>>, <<1, 1>>, <<2, 0>>, <<6, 2>>, <<5, 1>>, <<4, 2>>, <<5, 3>>,
    <<6, 4>>, <<4, 2>>, <<0, 2>>, <<1, 1>>, <<7, 5>>, <<6, 4>>, <<1, 5>>,
    <<2, 6>>, <<4, 6>>, <<3, 5>>, <<2, 4>>, <<4, 6>>, <<7, 7>>, <<6, 6>>,
    <<2, 6>>, <<3, 5>>, <<4, 4>>, <<2, 6>>, <<1, 7>>, <<3, 5>>, <<6, 4>>,
    <<5, 3>>, <<4, 6>>, <<6, 4>>, <<7, 3>>, <<5, 5>>, <<3, 5>>, <<4, 4>>,
    <<5, 3>>, <<3, 5>>, <<0, 4>>, <<1, 3>>, <<3, 5>>, <<2, 4>>, <<1, 3>>,
    <<3, 5>>, <<5, 1>>, <<4, 0>>, <<3, 5>>, <<4, 4>>, <<5, 5>>, <<3, 3>>,
    <<0, 6>>, <<1, 5>>, <<6, 0>>, <<5, 1>>, <<1, 1>>, <<2, 2>>, <<3, 3>>,
    <<1, 1>>, <<0, 0>>, <<2, 2>>, <<4, 0>>, <<3, 1>>, <<2, 2>>, <<4, 0>>,
    <<6, 2>>, <<7, 1>>, <<5, 3>>, <<3, 7>>, <<4, 6>>, <<4, 2>>, <<3, 1>>,
    <<2, 0>>, <<4, 2>>, <<6, 4>>, <<6, 6>>, <<5, 7>>, <<1, 5>>, <<2, 4>>,
    <<5, 7>>, <<3, 5>>, <<1, 3>> >>

\* Recorded game, Red starting; it stops with a king to move that meets an
\* own piece first on one diagonal and can slide on another.
GameKingBehindOwnPiece ==
  << <<5, 1>>, <<4, 0>>, <<2, 6>>, <<3, 5>>, <<5, 7>>, <<4, 6>>, <<3, 5>>,
    <<5, 7>>, <<4, 0>>, <<3, 1>>, <<2, 0>>, <<4, 2>>, <<5, 3>>, <<3, 1>>,
    <<2, 2>>, <<4, 0>>, <<6, 2>>, <<5, 3>>, <<1, 5>>, <<2, 6>>, <<5, 5>>,
    <<4, 6>>, <<1, 1>>, <<2, 0>>, <<6, 0>>, <<5, 1>>, <<4, 0>>, <<6, 2>>,
    <<7, 3>>, <<5, 1>>, <<0, 0>>, <<1, 1>>, <<5, 1>>, <<4, 0>>, <<2, 6>>,
    <<3, 7>>, <<6, 4>>, <<5, 5>>, <<1, 7>>, <<2, 6>>, <<5, 3>>, <<4, 4>>,
    <<2, 4>>, <<3, 3>>, <<4, 4>>, <<2, 2>>, <<0, 0>>, <<1, 3>>, <<2, 2>>,
    <<0, 0>>, <<3, 3>>, <<0, 2>>, <<1, 1>>, <<3, 3>>, <<0, 0>>, <<0, 6>>,
    <<1, 5>>, <<7, 5>>, <<6, 4>>, <<5, 7>>, <<7, 5>>, <<4, 0>>, <<3, 1>>,
    <<7, 5>>, <<5, 3>>, <<0, 0>>, <<3, 3>>, <<2, 0>>, <<4, 2>>, <<3, 3>>,
    <<6, 0>>, <<0, 6>>, <<0, 4>>, <<1, 3>>, <<7, 7>>, <<6, 6>>, <<5, 3>>,
    <<6, 2>>, <<7, 1>>, <<5, 3>>, <<1, 3>>, <<2, 2>>, <<4, 6>>, <<3, 5>>,
    <<2, 6>>, <<4, 4>>, <<6, 2>>, <<5, 5>>, <<4, 6>>, <<3, 7>>, <<5, 5>>,
    <<7, 7>>, <<0, 6>>, <<5, 1>>, <<7, 7>>, <<6, 6>>, <<5, 1>>, <<7, 3>> >>

\* Recorded game, Red starting; it stops with Red to move, a red man on
\* (3,7), a black man diagonally behind it on (4,6) and (5,5) empty.
GameEnemyBehindMan ==
  << <<5, 5>>, <<4, 6>>, <<2, 6>>, <<3, 5>>, <<4, 6>>, <<3, 7>>, <<3, 5>>,
     <<4, 6>>, <<5, 7>>, <<3, 5>>, <<2, 4>>, <<4, 6>> >>

\* Recorded game, Red starting; it stops in the middle of a chain of Black:
\* the black man has captured onto (3,3) and can capture the red man on
\* (4,2), which in turn could capture it.
GameMidChain ==
  << <<5, 3>>, <<4, 4>>, <<2, 2>>, <<3, 3>>, <<4, 4>>, <<2, 2>>, <<1, 3>>,
     <<3, 1>>, <<6, 4>>, <<5, 3>>, <<0, 2>>, <<1, 3>>, <<5, 1>>, <<4, 2>>,
     <<2, 6>>, <<3, 7>>, <<5, 5>>, <<4, 6>>, <<3, 7>>, <<5, 5>>, <<6, 6>>,
     <<4, 4>>, <<2, 4>>, <<3, 3>>, <<4, 4>>, <<2, 2>>, <<1, 1>>, <<3, 3>>,
     <<5, 1>>, <<6, 2>>, <<4, 0>>, <<2, 2>>, <<1, 3>>, <<3, 1>>, <<7, 3>>,
     <<6, 4>>, <<3, 1>>, <<4, 0>>, <<7, 7>>, <<6, 6>>, <<4, 0>>, <<5, 1>>,
     <<6, 0>>, <<4, 2>>, <<0, 4>>, <<1, 3>>, <<7, 1>>, <<6, 2>>, <<1, 3>>,
     <<2, 2>>, <<5, 3>>, <<4, 4>>, <<2, 0>>, <<3, 1>>, <<4, 2>>, <<2, 0>>,
     <<1, 5>>, <<2, 6>>, <<4, 4>>, <<3, 3>>, <<2, 2>>, <<4, 4>>, <<6, 4>>,
     <<5, 3>>, <<4, 4>>, <<5, 5>>, <<6, 6>>, <<4, 4>>, <<0, 0>>, <<1, 1>>,
     <<2, 0>>, <<0, 2>>, <<2, 6>>, <<3, 7>>, <<7, 5>>, <<6, 6>>, <<1, 7>>,
     <<2, 6>>, <<0, 2>>, <<4, 6>>, <<3, 7>>, <<5, 5>>, <<7, 7>>, <<4, 4>>,
     <<3, 5>>, <<2, 6>>, <<4, 4>>, <<5, 3>>, <<3, 5>>, <<7, 7>>, <<2, 2>>,
     <<6, 2>>, <<5, 1>>, <<2, 2>>, <<1, 3>>, <<5, 1>>, <<4, 2>>, <<1, 3>>,
     <<4, 6>>, <<5, 7>>, <<3, 5>>, <<0, 6>>, <<1, 5>>, <<3, 5>>, <<2, 4>>,
     <<1, 5>>, <<3, 3>> >>

\* Recorded game, Red starting; it stops with Black to move, a black king on
\* (6,0) and a red king on (4,2), the squares between and beyond them empty.
GameKingLongCapture ==
  << <<5, 7>>, <<4, 6>>, <<2, 4>>, <<3, 3>>, <<4, 6>>, <<3, 5>>, <<2, 6>>,
     <<4, 4>>, <<5, 3>>, <<3, 5>>, <<1, 5>>, <<2, 4>>, <<5, 5>>, <<4, 4>>,
     <<3, 3>>, <<5, 5>>, <<6, 6>>, <<4, 4>>, <<2, 4>>, <<4, 6>>, <<7, 5>>,
     <<6, 6>>, <<0, 4>>, <<1, 5>>, <<6, 6>>, <<5, 7>>, <<1, 7>>, <<2, 6>>,
     <<5, 7>>, <<3, 5>>, <<1, 7>>, <<2, 2>>, <<3, 1>>, <<4, 4>>, <<3, 3>>,
     <<1, 1>>, <<2, 2>>, <<3, 3>>, <<1, 1>>, <<0, 0>>, <<2, 2>>, <<6, 4>>,
     <<5, 5>>, <<1, 5>>, <<2, 4>>, <<5, 1>>, <<4, 2>>, <<3, 1>>, <<5, 3>>,
     <<6, 2>>, <<4, 4>>, <<0, 2>>, <<1, 1>>, <<4, 4>>, <<3, 3>>, <<2, 2>>,
     <<4, 4>>, <<6, 6>>, <<7, 7>>, <<5, 5>>, <<2, 4>>, <<3, 5>>, <<7, 3>>,
     <<6, 2>>, <<1, 3>>, <<2, 4>>, <<6, 0>>, <<5, 1>>, <<2, 4>>, <<3, 3>>,
     <<5, 5>>, <<4, 4>>, <<3, 5>>, <<5, 3>>, <<6, 2>>, <<4, 4>>, <<2, 2>>,
     <<0, 0>>, <<2, 0>>, <<3, 1>>, <<5, 1>>, <<4, 2>>, <<3, 1>>, <<5, 3>>,
     <<0, 0>>, <<2, 2>>, <<5, 3>>, <<6, 4>>, <<2, 2>>, <<0, 0>>, <<6, 4>>,
     <<7, 5>>, <<7, 1>>, <<6, 0>>, <<0, 6>>, <<1, 5>>, <<0, 0>>, <<6, 6>>,
     <<7, 5>>, <<5, 7>>, <<1, 7>>, <<0, 6>>, <<5, 7>>, <<2, 4>>, <<6, 0>>,
     <<5, 1>>, <<2, 4>>, <<6, 0>>, <<0, 6>>, <<4, 2>> >>

Games ==
  << <<>>, GamePromotingCapture, GameChainWithRival, GameLastPiece,
     GameBlocked, GameSelfBlock, GameKingCapture, GameKingSlide,
     GameSimplePromotion, GameKingBehindOwnPiece, GameEnemyBehindMan,
     GameMidChain, GameKingLongCapture >>

\* Which branch of handleSquareClick a click takes.
clickKind(s, row, col) ==
  IF s.gameOver THEN "gameover"
  ELSE IF s.selectedPiece # Null /\ isValidMove(s, row, col) THEN "move"
  ELSE IF s.board[row][col] # Null
          /\ s.board[row][col].color = s.currentPlayer
  THEN IF /\ s.continueCapture
          /\ s.selectedSquare # NoSquare
          /\ s.selectedSquare # <<row, col>>
       THEN "pinned"
       ELSE "select"
  ELSE "deselect"

\* lastTurn after movePiece was or was not entered (moved) from state s and
\* left state after: a move that ends the turn (lines 385-392, 407-412)
\* completes a turn of the moved piece's colour.
turnAfter(s, moved, after, before) ==
  IF moved /\ ~after.continueCapture THEN s.selectedPiece.color ELSE before

\* turnColor after movePiece was or was not entered (moved) from state s
\* and left state after: the move that sets continueCapture with no chain
\* pending (lines 397-399) begins a chain of the moved piece's colour, a
\* move that ends the turn ends the chain.
chainAfter(s, moved, after, before) ==
  IF ~moved THEN before
  ELSE IF ~after.continueCapture THEN "none"
  ELSE IF s.continueCapture THEN before
  ELSE s.selectedPiece.color

\* A click on (row, col) in a game with history: h.state is the engine
\* state, h.lastTurn the colour that completed the last turn, h.turnColor
\* the colour that began the pending chain.
clickWithTurn(h, row, col) ==
  LET after == handleSquareClick(h.state, row, col)
      moved == clickKind(h.state, row, col) = "move"
  IN [state |-> after,
      lastTurn |-> turnAfter(h.state, moved, after, h.lastTurn),
      turnColor |-> chainAfter(h.state, moved, after, h.turnColor)]

\* The game after clicks[lo], ..., clicks[hi] in this order, from h.  The
\* range is split in halves, and the first half is evaluated before the
\* second is entered, to keep the evaluation shallow; once the game is over
\* every further click returns at line 91.
RECURSIVE ReplayRange(_, _, _, _)
ReplayRange(h, clicks, lo, hi) ==
  IF lo > hi THEN h
  ELSE IF lo = hi THEN clickWithTurn(h, clicks[lo][1], clicks[lo][2])
  ELSE LET left == ReplayRange(h, clicks, lo, (lo + hi) \div 2)
       IN IF left.state.gameOver THEN left
          ELSE ReplayRange(left, clicks, ((lo + hi) \div 2) + 1, hi)

\* The game the clicks leave when made from engine state s with no turn
\* completed yet.
Replay(s, clicks) ==
  ReplayRange([state |-> s, lastTurn |-> "none", turnColor |-> "none"],
              clicks, 1, Len(clicks))

\* ---------------------------------------------------------------- history
NoOp(op, kind) ==
  [op |-> op, kind |-> kind, from |-> NoSquare, to |-> NoSquare,
   capture |-> NoSquare, color |-> "none", promoted |-> FALSE,
   player |-> "none"]

\* A relocation: the move applied, the colour of the piece moved, whether
\* it was promoted, and currentPlayer when the handler was entered.
MoveOp(s, op, row, col) ==
  LET move == Head(SelectSeq(s.validMoves,
                             LAMBDA m : m.row = row /\ m.col = col))
      piece == s.board[s.selectedSquare[1]][s.selectedSquare[2]]
  IN [op |-> op, kind |-> "move", from |-> s.selectedSquare,
      to |-> <<row, col>>, capture |-> move.capture, color |-> piece.color,
      promoted |-> wasPromoted(piece, row), player |-> s.currentPlayer]

Install(s) ==
  /\ board' = s.board
  /\ currentPlayer' = s.currentPlayer
  /\ selectedPiece' = s.selectedPiece
  /\ selectedSquare' = s.selectedSquare
  /\ validMoves' = s.validMoves
  /\ mustCapture' = s.mustCapture
  /\ continueCapture' = s.continueCapture
  /\ gameOver' = s.gameOver
  /\ winner' = s.winner

\* ------------------------------------------------------------------ Init
\* The state the start button leaves (a new CheckersGame with the chosen
\* starting side), or the state a recorded game leaves.
Init ==
  \E g \in 1 .. Len(Games), startingPlayer \in Colors :
    /\ Games[g] # <<>> => startingPlayer = "red"
    /\ LET h == Replay(newGame(startingPlayer), Games[g])
           s == h.state
       IN /\ lastTurn = h.lastTurn
          /\ turnColor = h.turnColor
          /\ board = s.board
          /\ currentPlayer = s.currentPlayer
          /\ selectedPiece = s.selectedPiece
          /\ selectedSquare = s.selectedSquare
          /\ validMoves = s.validMoves
          /\ mustCapture = s.mustCapture
          /\ continueCapture = s.continueCapture
          /\ gameOver = s.gameOver
          /\ winner = s.winner
    /\ toggleChecked = (startingPlayer = "black")
    /\ moves = 0
    /\ last = NoOp(IF Games[g] = <<>> THEN "start" ELSE "play", "none")

\* --------------------------------------------------------------- actions
\* Click on the square (row, col).
HandleSquareClick(row, col) ==
  LET kind == clickKind(State, row, col)
      after == handleSquareClick(State, row, col)
  IN /\ kind = "move" => moves < MaxMoves
     /\ Install(after)
     /\ moves' = IF kind = "move" THEN moves + 1 ELSE moves
     /\ last' = IF kind = "move" THEN MoveOp(State, "click", row, col)
                ELSE NoOp("click", kind)
     /\ lastTurn' = turnAfter(State, kind = "move", after, lastTurn)
     /\ turnColor' = chainAfter(State, kind = "move", after, turnColor)
     /\ UNCHANGED toggleChecked

\* Click on the hint button.
ShowHint ==
  LET allCaptures == getAllCaptureMoves(board, currentPlayer)
      drawn == IF gameOver THEN {}
               ELSE movablePiecesWith(board, currentPlayer, allCaptures)
  IN \E randomPiece \in (IF drawn = {} THEN {NoSquare} ELSE drawn) :
    /\ LET after == showHintWith(State, randomPiece, allCaptures)
       IN Install(after)
    /\ last' = NoOp("hint", IF gameOver THEN "gameover"
                            ELSE IF randomPiece = NoSquare THEN "none"
                            ELSE "select")
    /\ UNCHANGED <<toggleChecked, moves, lastTurn, turnColor>>

\* Click on the reset button.
ResetGame ==
  /\ Install(resetGame(State))
  /\ moves' = 0
  /\ last' = NoOp("reset", "none")
  /\ lastTurn' = "none"
  /\ turnColor' = "none"
  /\ UNCHANGED toggleChecked

\* The user flips the in-game starter toggle.
StarterToggle ==
  /\ toggleChecked' = ~toggleChecked
  /\ Install(starterToggleChange(State, ~toggleChecked))
  /\ last' = NoOp("toggle", "none")
  /\ UNCHANGED <<moves, lastTurn, turnColor>>

\* movePiece called directly on the selection with any destination.
CallMovePiece(toRow, toCol) ==
  LET from == IF selectedSquare = NoSquare THEN <<0, 0>> ELSE selectedSquare
      accepted == isValidMove(State, toRow, toCol)
      after == movePiece(State, from[1], from[2], toRow, toCol)
  IN /\ accepted => moves < MaxMoves
     /\ Install(after)
     /\ moves' = IF accepted THEN moves + 1 ELSE moves
     /\ last' = IF accepted THEN MoveOp(State, "call", toRow, toCol)
                ELSE NoOp("call", "rejected")
     /\ lastTurn' = turnAfter(State, accepted, after, lastTurn)
     /\ turnColor' = chainAfter(State, accepted, after, turnColor)
     /\ UNCHANGED toggleChecked

Next ==
  \/ \E row \in Rows, col \in Rows : HandleSquareClick(row, col)
  \/ ShowHint
  \/ ResetGame
  \/ StarterToggle

Spec == Init /\ [][Next]_vars

NextDirect ==
  \/ \E row \in Rows, col \in Rows : HandleSquareClick(row, col)
  \/ \E toRow \in Rows, toCol \in Rows : CallMovePiece(toRow, toCol)

\* Square clicks, and movePiece called directly (the game object is the
\* global window.game) on the current selection.
SpecDirect == Init /\ [][NextDirect]_vars


\* ================================================================ claims
Other(color) == IF color = "red" THEN "black" ELSE "red"

\* A step that relocates a piece.
MoveStep == moves' = moves + 1

\* The state a finished turn leaves: nothing selected, no chain.
SelectionCleared ==
  /\ selectedSquare = NoSquare
  /\ selectedPiece = Null
  /\ validMoves = <<>>

\* The engine fields other than mustCapture.
engine ==
  <<board, currentPlayer, selectedPiece, selectedSquare, validMoves,
    continueCapture, gameOver>>

\* The standard layout, written out square by square.
StandardLayout ==
  \A row \in Rows, col \in Rows :
    board[row][col] =
      IF (row + col) % 2 = 0 /\ row \in {0, 1, 2}
      THEN [color |-> "black", king |-> FALSE]
      ELSE IF (row + col) % 2 = 0 /\ row \in {5, 6, 7}
      THEN [color |-> "red", king |-> FALSE]
      ELSE Null

\* C1: forced capture.  A non-capturing move is applied only when no piece
\* of the mover's colour has a capture on the board the move starts from,
\* and validMoves never offers a non-capturing move while the selected
\* piece's colour has a capture.
C1_ForcedCapture ==
  /\ [][MoveStep /\ last'.capture = NoSquare
        => getAllCaptureMoves(board, last'.color) = <<>>]_vars
  /\ [](\A i \in 1 .. Len(validMoves) :
          validMoves[i].capture = NoSquare
          => /\ selectedPiece # Null
             /\ getAllCaptureMoves(board, selectedPiece.color) = <<>>)

\* C1 witness: a non-capturing move has been applied.
C1_Witness ==
  last.kind = "move" /\ last.capture = NoSquare

\* C2: a move that promotes the moved piece ends the turn: no chain, nothing
\* selected, currentPlayer switched, also when the move captured and the new
\* king could capture again from its square.
C2_PromotionEndsTurn ==
  last.kind = "move" /\ last.promoted
  => /\ ~continueCapture
     /\ SelectionCleared
     /\ currentPlayer = Other(last.player)

\* C2 witness: a capture promoted the piece and the new king has a further
\* capture from the landing square.
C2_Witness ==
  /\ last.kind = "move"
  /\ last.promoted
  /\ last.capture # NoSquare
  /\ getCaptureMoves(board, last.to[1], last.to[2]) # <<>>

\* C3: after a move the turn continues with the same piece (chain flag set,
\* selection on the landing square, validMoves its captures, currentPlayer
\* unchanged) exactly when the move captured, did not promote and the piece
\* has a capture from the landing square; otherwise the chain flag is off.
C3_ChainExactly ==
  last.kind = "move"
  => LET shouldContinue ==
           /\ last.capture # NoSquare
           /\ ~last.promoted
           /\ getCaptureMoves(board, last.to[1], last.to[2]) # <<>>
         continues ==
           /\ continueCapture
           /\ selectedSquare = last.to
           /\ selectedPiece = board[last.to[1]][last.to[2]]
           /\ validMoves = getCaptureMoves(board, last.to[1], last.to[2])
           /\ currentPlayer = last.player
     IN /\ continues <=> shouldContinue
        /\ continueCapture <=> shouldContinue

\* C3 witness: a capture after which the chain continues.
C3_Witness ==
  last.kind = "move" /\ last.capture # NoSquare /\ continueCapture

\* C4 (as claimed): while a chain is pending, a square click or a hint
\* request changes selectedSquare only by moving the pinned piece.
C4_SelectionPinned ==
  [][continueCapture /\ last'.op \in {"click", "hint"}
       /\ selectedSquare' # selectedSquare
     => last'.kind = "move" /\ last'.from = selectedSquare]_vars

\* C5: once gameOver is set, a square click or a hint request changes no
\* engine field, and gameOver is cleared only by resetGame.
C5_GameOverAbsorbing ==
  [][gameOver
     => /\ last'.op \in {"click", "hint"}
           => UNCHANGED engine /\ UNCHANGED mustCapture
        /\ ~gameOver' => last'.op = "reset"]_vars

\* C5 witness: a click or a hint request made after the game ended.
C5_Witness ==
  gameOver /\ last.op \in {"click", "hint"} /\ last.kind = "gameover"

\* C6: after a move that ends the turn, a colour without pieces has lost:
\* gameOver is set and endGame got the other colour, whoever is to move.
C6_NoPiecesLoses ==
  last.kind = "move" /\ ~continueCapture
  => /\ countPieces(board, "red") = 0 => gameOver /\ winner = "black"
     /\ countPieces(board, "black") = 0 => gameOver /\ winner = "red"

\* C6 witness: the last piece of a colour has been captured.
C6_Witness ==
  /\ last.kind = "move"
  /\ countPieces(board, "red") = 0 \/ countPieces(board, "black") = 0

\* C7: after a move that ends the turn with both colours on the board, the
\* game is over, won by the player who held the turn when the move was made,
\* exactly when the new side to move has no piece with a valid move (forced
\* capture applied); otherwise gameOver stays false.
C7_BlockedSideLoses ==
  /\ last.kind = "move"
  /\ ~continueCapture
  /\ countPieces(board, "red") > 0
  /\ countPieces(board, "black") > 0
  => LET blocked ==
           \A row \in Rows, col \in Rows :
             board[row][col].color = currentPlayer
             => getValidMoves(board, row, col) = <<>>
     IN /\ (gameOver /\ winner = last.player) <=> blocked
        /\ ~blocked => ~gameOver /\ winner = "none"

\* C7 witness: a move left the new side to move with pieces but no move.
C7_Witness ==
  /\ last.kind = "move"
  /\ gameOver
  /\ countPieces(board, "red") > 0
  /\ countPieces(board, "black") > 0

\* C8 (as claimed): resetGame leaves the standard layout, nothing selected,
\* no chain, no game over, and the configured starting side to move.
C8_ResetRestores ==
  last.op = "reset"
  => /\ StandardLayout
     /\ SelectionCleared
     /\ ~continueCapture
     /\ ~gameOver
     /\ currentPlayer = (IF toggleChecked THEN "black" ELSE "red")

C10_RejectedMoveIsNoOp ==
  [][last'.op = "call" /\ last'.kind = "rejected"
     => UNCHANGED engine /\ UNCHANGED <<mustCapture, winner>>]_vars

\* C10 witness: a call was rejected while a piece with moves was selected.
C10_Witness ==
  last.op = "call" /\ last.kind = "rejected" /\ validMoves # <<>>

\* C11 (as claimed): a click on an empty square that is no destination of
\* the selection, or on a piece that is not of the side to move, leaves the
\* board, currentPlayer, the selection, validMoves, continueCapture and
\* gameOver as they were.
C11_RejectedSelectionNoChange ==
  [][last'.op = "click" /\ last'.kind = "deselect" => UNCHANGED engine]_vars

\* C11 (amended): such a click leaves the board, currentPlayer,
\* continueCapture and gameOver as they were; it leaves the selection and
\* validMoves as they were while a chain is pending, and otherwise leaves
\* nothing selected and validMoves empty.
C11_RejectedSelectionDeselects ==
  [][last'.op = "click" /\ last'.kind = "deselect"
     => /\ UNCHANGED <<board, currentPlayer, continueCapture, gameOver>>
        /\ IF continueCapture
           THEN UNCHANGED <<selectedPiece, selectedSquare, validMoves>>
           ELSE /\ selectedPiece' = Null
                /\ selectedSquare' = NoSquare
                /\ validMoves' = <<>>]_vars

\* C11 witness: a rejected click made while a chain is pending.
C11_Witness ==
  /\ last.op = "click"
  /\ last.kind = "deselect"
  /\ continueCapture
  /\ selectedSquare # NoSquare

\* C12: a move lands on a square of the board that was empty, leaves the
\* number of pieces of the moved piece's colour as it was, and lowers the
\* other colour's by one if it captured and by nothing otherwise; within a
\* game no colour's number of pieces grows, and it never exceeds 12.
C12_NoOverwrite ==
  /\ [][MoveStep
        => LET to == last'.to
               c == last'.color
           IN /\ isValidPosition(to[1], to[2])
              /\ board[to[1]][to[2]] = Null
              /\ countPieces(board', c) = countPieces(board, c)
              /\ countPieces(board', Other(c))
                 = countPieces(board, Other(c))
                   - (IF last'.capture # NoSquare THEN 1 ELSE 0)]_vars
  /\ [][last'.op # "reset"
        => \A c \in Colors : countPieces(board', c) <= countPieces(board, c)]_vars
  /\ [](\A c \in Colors : countPieces(board, c) <= 12)

\* C12 witness: a capture has been applied.
C12_Witness ==
  /\ last.kind = "move"
  /\ last.capture # NoSquare
  /\ board[last.capture[1]][last.capture[2]] = Null
  /\ countPieces(board, Other(last.color)) < 12

\* The moves getValidMoves returns for the pieces of one colour, square by
\* square.
ValidMovesOf(c) ==
  LET allCaptures == getAllCaptureMoves(board, c)
  IN [sq \in {q \in Squares : board[q[1]][q[2]].color = c} |->
        validMovesWith(board, sq[1], sq[2], allCaptures)]

OnlyCaptures(ms) == \A i \in 1 .. Len(ms) : ms[i].capture # NoSquare

\* C13 (as claimed): from the initial board with Red to move, the clicks on
\* (5,0) and then (4,1) leave no piece on (5,0), a red man on (4,1) and
\* Black to move.
C13_ScenarioOddSquares ==
  last.op = "start" /\ currentPlayer = "red"
  => LET after == handleSquareClick(handleSquareClick(State, 5, 0), 4, 1)
     IN /\ after.board[5][0] = Null
        /\ after.board[4][1] = [color |-> "red", king |-> FALSE]
        /\ after.currentPlayer = "black"

\* C13 (amended): from the initial board with Red to move, the clicks on
\* (5,1) and then (4,0) leave no piece on (5,1), a red man on (4,0) and
\* Black to move.
C13_ScenarioDarkSquares ==
  last.op = "start" /\ currentPlayer = "red"
  => LET after == handleSquareClick(handleSquareClick(State, 5, 1), 4, 0)
     IN /\ after.board[5][1] = Null
        /\ after.board[4][0] = [color |-> "red", king |-> FALSE]
        /\ after.currentPlayer = "black"

\* C13 witness: Red's first move of a game went from (5,1) to (4,0).
C13_Witness ==
  /\ last.op = "click"
  /\ last.kind = "move"
  /\ last.from = <<5, 1>>
  /\ last.to = <<4, 0>>
  /\ last.player = "red"
  /\ \A row \in Rows, col \in Rows :
       <<row, col>> \notin {<<5, 1>>, <<4, 0>>}
       => board[row][col] = initBoard[row][col]
  /\ board[5][1] = Null
  /\ board[4][0] = [color |-> "red", king |-> FALSE]
  /\ currentPlayer = "black"

\* C14 (as claimed): on every reachable board and for each colour, the
\* colour has a capture exactly when the moves getValidMoves returns for its
\* pieces are captures only.
C14_CaptureIffOnlyCaptures ==
  \A c \in Colors :
    LET vm == ValidMovesOf(c)
    IN getAllCaptureMoves(board, c) # <<>>
       <=> \A sq \in DOMAIN vm : OnlyCaptures(vm[sq])

\* C14 (amended): on every reachable board and for each colour, the colour
\* has a capture exactly when getValidMoves returns at least one move for
\* its pieces and returns captures only.
C14_CaptureIffSomeAndOnlyCaptures ==
  \A c \in Colors :
    LET vm == ValidMovesOf(c)
    IN getAllCaptureMoves(board, c) # <<>>
       <=> /\ \E sq \in DOMAIN vm : vm[sq] # <<>>
           /\ \A sq \in DOMAIN vm : OnlyCaptures(vm[sq])

\* C14 witness: a colour has a capture while one of its pieces could
\* otherwise make a simple move.
C14_Witness ==
  \E c \in Colors :
    /\ getAllCaptureMoves(board, c) # <<>>
    /\ \E sq \in Squares :
         /\ board[sq[1]][sq[2]].color = c
         /\ getNormalMoves(board, sq[1], sq[2]) # <<>>

Diagonals == {<<-1, -1>>, <<-1, 1>>, <<1, -1>>, <<1, 1>>}

\* The elements of a list of moves.
MoveSet(ms) == {ms[i] : i \in 1 .. Len(ms)}

\* The distances from (row, col) in direction d that stay on the board, and
\* those of them at which a piece stands.
OnBoardAt(row, col, d) ==
  {k \in 1 .. (BoardSize - 1) :
     isValidPosition(row + d[1] * k, col + d[2] * k)}

OccupiedAt(b, row, col, d) ==
  {k \in OnBoardAt(row, col, d) : b[row + d[1] * k][col + d[2] * k] # Null}

\* The captures a king of colour c on (row, col) has in direction d, from
\* the geometry: the first piece met is an enemy, and every square behind
\* it up to the next piece or the edge is a landing square.
KingCapturesIn(b, c, row, col, d) ==
  LET occupied == OccupiedAt(b, row, col, d)
  IN IF occupied = {} THEN {}
     ELSE LET first == CHOOSE k \in occupied : \A j \in occupied : k <= j
              enemy == <<row + d[1] * first, col + d[2] * first>>
          IN IF b[enemy[1]][enemy[2]].color = c THEN {}
             ELSE {[row |-> row + d[1] * n, col |-> col + d[2] * n,
                    capture |-> enemy] :
                   n \in {m \in OnBoardAt(row, col, d) :
                            /\ m > first
                            /\ \A j \in (first + 1) .. m : j \notin occupied}}

\* C15: for every king on a reachable board, getCaptureMoves returns, each
\* once, exactly the landing squares behind the first piece met in each of
\* the four diagonal directions when that piece is an enemy, all capturing
\* that enemy; a direction whose first piece is an own piece, or that meets
\* no piece, yields nothing, and no direction yields two captured squares.
C15_KingCaptures ==
  \A row \in Rows, col \in Rows :
    board[row][col].king
    => LET caps == getCaptureMoves(board, row, col)
           c == board[row][col].color
       IN /\ MoveSet(caps)
             = UNION {KingCapturesIn(board, c, row, col, d) : d \in Diagonals}
          /\ \A i, j \in 1 .. Len(caps) : caps[i] = caps[j] => i = j
          /\ \A d \in Diagonals :
               Cardinality({m.capture :
                            m \in {x \in MoveSet(caps) :
                                     \E k \in 1 .. (BoardSize - 1) :
                                       /\ x.row = row + d[1] * k
                                       /\ x.col = col + d[2] * k}}) <= 1

\* C15 witness: a king has two or more landing squares behind one enemy and
\* a direction in which it meets no piece, and a king meets an own piece
\* first in some direction.
C15_Witness ==
  /\ \E row \in Rows, col \in Rows :
       /\ board[row][col].king
       /\ \E d \in Diagonals :
            Cardinality(KingCapturesIn(board, board[row][col].color,
                                       row, col, d)) >= 2
       /\ \E d \in Diagonals :
            /\ OnBoardAt(row, col, d) # {}
            /\ OccupiedAt(board, row, col, d) = {}
  /\ \E row \in Rows, col \in Rows, d \in Diagonals :
       LET occupied == OccupiedAt(board, row, col, d)
       IN /\ board[row][col].king
          /\ \E k \in occupied :
               /\ \A j \in occupied : k <= j
               /\ board[row + d[1] * k][col + d[2] * k].color
                  = board[row][col].color

\* The captures a man of colour c on (row, col) has, from the geometry: an
\* enemy on the adjacent forward square and an empty square of the board
\* behind it.
ManCaptures(b, c, row, col) ==
  LET forward == IF c = "red" THEN -1 ELSE 1
  IN {[row |-> row + 2 * forward, col |-> col + 2 * dCol,
       capture |-> <<row + forward, col + dCol>>] :
      dCol \in {d \in {-1, 1} :
                  /\ isValidPosition(row + 2 * forward, col + 2 * d)
                  /\ b[row + forward][col + d] # Null
                  /\ b[row + forward][col + d].color # c
                  /\ b[row + 2 * forward][col + 2 * d] = Null}}

\* C16: for every man on a reachable board, getCaptureMoves returns, each
\* once, exactly the jumps over an enemy on an adjacent forward square onto
\* the empty square of the board behind it, capturing that enemy; and with
\* only a black man on (2,3) and a red man on (3,4) on the board, it returns
\* from (2,3) the one move to (4,5) capturing (3,4).
C16_ManCaptures ==
  /\ \A row \in Rows, col \in Rows :
       board[row][col] # Null /\ ~board[row][col].king
       => LET caps == getCaptureMoves(board, row, col)
          IN /\ MoveSet(caps)
                = ManCaptures(board, board[row][col].color, row, col)
             /\ \A i, j \in 1 .. Len(caps) : caps[i] = caps[j] => i = j
  /\ LET example ==
           [row \in Rows |-> [col \in Rows |->
              IF <<row, col>> = <<2, 3>>
              THEN [color |-> "black", king |-> FALSE]
              ELSE IF <<row, col>> = <<3, 4>>
              THEN [color |-> "red", king |-> FALSE]
              ELSE Null]]
     IN getCaptureMoves(example, 2, 3)
        = <<[row |-> 4, col |-> 5, capture |-> <<3, 4>>]>>

\* C16 witness: a man has a capture, and another man stands next to an
\* enemy on a forward square with a piece behind it.
C16_Witness ==
  /\ \E row \in Rows, col \in Rows :
       /\ board[row][col] # Null
       /\ ~board[row][col].king
       /\ getCaptureMoves(board, row, col) # <<>>
  /\ \E row \in Rows, col \in Rows, dCol \in {-1, 1} :
       LET c == board[row][col].color
           forward == IF c = "red" THEN -1 ELSE 1
       IN /\ c \in Colors
          /\ ~board[row][col].king
          /\ isValidPosition(row + 2 * forward, col + 2 * dCol)
          /\ board[row + forward][col + dCol].color = Other(c)
          /\ board[row + 2 * forward][col + 2 * dCol] # Null

\* C17 (as claimed): a call of getValidMoves on any square leaves every
\* field of the engine state, mustCapture included, as it was.
C17_QueryChangesNothing ==
  \A row \in Rows, col \in Rows :
    getValidMovesCall(State, row, col) = State

\* C17 (amended): a call of getValidMoves on any square leaves every field
\* but mustCapture as it was, and sets mustCapture to whether the colour of
\* the piece on the square has a capture (an empty square leaves it too);
\* so the enumeration of playerHasValidMoves at the end of a turn leaves
\* mustCapture telling whether the new side to move has a capture.
C17_QueryChangesMustCaptureOnly ==
  /\ \A row \in Rows, col \in Rows :
       LET after == getValidMovesCall(State, row, col)
       IN /\ [after EXCEPT !.mustCapture = mustCapture] = State
          /\ after.mustCapture
             = IF board[row][col] = Null THEN mustCapture
               ELSE getAllCaptureMoves(board, board[row][col].color) # <<>>
  /\ /\ last.kind = "move"
     /\ ~continueCapture
     /\ countPieces(board, "red") > 0
     /\ countPieces(board, "black") > 0
     => mustCapture = (getAllCaptureMoves(board, currentPlayer) # <<>>)

\* C17 witness: the enumeration at the end of a turn found a capture for
\* the new side to move and left mustCapture set, with nothing selected.
C17_Witness ==
  /\ last.kind = "move"
  /\ ~continueCapture
  /\ ~gameOver
  /\ selectedSquare = NoSquare
  /\ mustCapture

\* C18: in every reachable state every piece stands on a square whose
\* row + col is even.
C18_DarkSquares ==
  \A row \in Rows, col \in Rows :
    board[row][col] # Null => (row + col) % 2 = 0

\* C18 witness: a king has captured over a distance of three rows or more.
C18_Witness ==
  /\ last.kind = "move"
  /\ last.capture # NoSquare
  /\ ~last.promoted
  /\ board[last.to[1]][last.to[2]].king
  /\ \/ last.to[1] - last.from[1] >= 3
     \/ last.from[1] - last.to[1] >= 3

\* C19: within a game (any step but a reset) the pieces change only in a
\* move: the moved piece keeps its colour, a king stays a king, a man turns
\* king only by landing on its colour's promotion row, the captured piece
\* leaves the board, and every other square keeps its piece unchanged; a
\* step that is no move leaves every piece as it was.
C19_PieceIdentity ==
  [][last'.op # "reset"
     => IF MoveStep
        THEN LET from == last'.from
                 to == last'.to
                 cap == last'.capture
                 before == board[from[1]][from[2]]
                 after == board'[to[1]][to[2]]
             IN /\ before # Null
                /\ after.color = before.color
                /\ before.king => after.king
                /\ ~before.king /\ after.king
                   => to[1] = (IF before.color = "red" THEN RedPromotionRow
                               ELSE BlackPromotionRow)
                /\ board'[from[1]][from[2]] = Null
                /\ cap # NoSquare => board'[cap[1]][cap[2]] = Null
                /\ \A sq \in Squares \ {from, to, cap} :
                     board'[sq[1]][sq[2]] = board[sq[1]][sq[2]]
        ELSE board' = board]_vars

\* C19 witness: a king has made a simple move and is still a king.
C19_Witness ==
  /\ last.kind = "move"
  /\ last.capture = NoSquare
  /\ ~last.promoted
  /\ board[last.to[1]][last.to[2]].king

\* C20 (as claimed): a move that does not continue a chain leaves nothing
\* selected, validMoves empty, continueCapture off and currentPlayer
\* switched once, and the win condition was evaluated after the switch (the
\* game is over exactly when a colour has no piece or the new side to move
\* has no move); and the colour that completes a turn is never the colour
\* that completed the turn before it.
C20_TurnEndAlternates ==
  /\ [](last.kind = "move" /\ ~continueCapture
        => /\ SelectionCleared
           /\ currentPlayer = Other(last.player)
           /\ gameOver
              <=> \/ countPieces(board, "red") = 0
                  \/ countPieces(board, "black") = 0
                  \/ ~playerHasValidMoves(board, currentPlayer))
  /\ [][MoveStep /\ ~continueCapture' /\ lastTurn # "none"
        => last'.color # lastTurn]_vars

\* C21 (as claimed): every piece relocated has the colour currentPlayer
\* held when the move was made.
C21_MoverIsSideToMove ==
  last.kind = "move" => last.color = last.player

\* The promotion row of a colour.
PromotionRow(color) ==
  IF color = "red" THEN RedPromotionRow ELSE BlackPromotionRow

\* C22: promotion rule.  After a move the moved piece is a king exactly when
\* it was a king before or landed on the promotion row of its colour (so a
\* landing on any other row leaves its king flag as it was), and every piece
\* left on another square is the piece that stood there, king flag included.
C22_PromotionRule ==
  [][MoveStep
     => LET from == last'.from
            to == last'.to
            before == board[from[1]][from[2]]
            after == board'[to[1]][to[2]]
        IN /\ before # Null /\ after # Null
           /\ after.king <=> (before.king \/ to[1] = PromotionRow(before.color))
           /\ to[1] # PromotionRow(before.color) => after.king = before.king
           /\ \A sq \in Squares \ {from, to} :
                board'[sq[1]][sq[2]] # Null
                => board'[sq[1]][sq[2]] = board[sq[1]][sq[2]]]_vars

\* C22 witness: a man has made a simple move onto its promotion row and is
\* a king, with another king standing elsewhere on the board.
C22_Witness ==
  /\ last.kind = "move"
  /\ last.promoted
  /\ last.capture = NoSquare
  /\ board[last.to[1]][last.to[2]].king
  /\ last.to[1] = PromotionRow(last.color)
  /\ \E sq \in Squares \ {last.to} : board[sq[1]][sq[2]].king

\* C23: frame of a move.  After a move from `from` to `to`, `from` is empty,
\* `to` holds the moved piece (a king if the move promoted it), the captured
\* square, if the move carries one, is empty, and every other square holds
\* exactly what it held before.
C23_MoveFrame ==
  [][MoveStep
     => LET from == last'.from
            to == last'.to
            cap == last'.capture
            piece == board[from[1]][from[2]]
        IN /\ piece # Null
           /\ board'[from[1]][from[2]] = Null
           /\ board'[to[1]][to[2]] =
                (IF last'.promoted THEN [piece EXCEPT !.king = TRUE]
                 ELSE piece)
           /\ cap # NoSquare => board'[cap[1]][cap[2]] = Null
           /\ \A sq \in Squares \ {from, to, cap} :
                board'[sq[1]][sq[2]] = board[sq[1]][sq[2]]]_vars

\* C23 witness: a capture has been applied: origin and captured square are
\* empty and the landing square holds a piece of the mover's colour.
C23_Witness ==
  /\ last.kind = "move"
  /\ last.capture # NoSquare
  /\ board[last.from[1]][last.from[2]] = Null
  /\ board[last.capture[1]][last.capture[2]] = Null
  /\ board[last.to[1]][last.to[2]].color = last.color

\* The absolute value of an integer.
Abs(n) == IF n < 0 THEN -n ELSE n

\* C24: men only go forward.  A move of a non-king red piece lowers its row
\* and a move of a non-king black piece raises it, captures included (two
\* rows and two columns, over the captured square); a simple move of a
\* non-king changes row and column by exactly one.
C24_MenForward ==
  [][MoveStep /\ ~board[last'.from[1]][last'.from[2]].king
     => LET from == last'.from
            to == last'.to
            cap == last'.capture
            piece == board[from[1]][from[2]]
            forward == IF piece.color = "red" THEN -1 ELSE 1
        IN /\ piece.color \in Colors
           /\ piece.color = "red" => to[1] < from[1]
           /\ piece.color = "black" => to[1] > from[1]
           /\ cap = NoSquare
              => to[1] - from[1] = forward /\ Abs(to[2] - from[2]) = 1
           /\ cap # NoSquare
              => /\ to[1] - from[1] = 2 * forward
                 /\ Abs(to[2] - from[2]) = 2
                 /\ cap[1] - from[1] = forward]_vars

\* A man of the given colour standing on sq has an enemy piece diagonally
\* behind it with the square beyond that piece empty.
EnemyBehind(b, color, sq) ==
  \E dCol \in {-1, 1} :
    LET back == IF color = "red" THEN 1 ELSE -1
        jr == sq[1] + back
        jc == sq[2] + dCol
        lr == sq[1] + 2 * back
        lc == sq[2] + 2 * dCol
    IN /\ isValidPosition(lr, lc)
       /\ b[jr][jc].color = Other(color)
       /\ b[lr][lc] = Null

\* C24 witness: a man that had an enemy piece diagonally behind it, with the
\* square beyond that piece empty, has moved forward.
C24_Witness ==
  /\ last.kind = "move"
  /\ ~board[last.to[1]][last.to[2]].king
  /\ EnemyBehind(board, last.color, last.from)

\* The squares a king on (row, col) can slide to, from the geometry: on one
\* of the four diagonals, on the board, empty, with only empty squares
\* between them and the king.
KingSlides(b, row, col) ==
  {[row |-> row + x[1][1] * x[2], col |-> col + x[1][2] * x[2],
    capture |-> NoSquare] :
   x \in {y \in Diagonals \X (1 .. (BoardSize - 1)) :
            /\ y[2] \in OnBoardAt(row, col, y[1])
            /\ \A j \in 1 .. y[2] : j \notin OccupiedAt(b, row, col, y[1])}}

\* C25: for every king on a reachable board, getNormalMoves returns, each
\* once, exactly the empty squares of the four diagonals through its square
\* that have only empty squares between them and the king: no square at or
\* beyond the first occupied square of a direction.
C25_KingSlides ==
  \A row \in Rows, col \in Rows :
    board[row][col].king
    => LET slides == getNormalMoves(board, row, col)
       IN /\ MoveSet(slides) = KingSlides(board, row, col)
          /\ \A i, j \in 1 .. Len(slides) : slides[i] = slides[j] => i = j
          /\ \A d \in Diagonals :
               \A k \in OccupiedAt(board, row, col, d) :
                 \A m \in MoveSet(slides), n \in k .. (BoardSize - 1) :
                   <<m.row, m.col>> # <<row + d[1] * n, col + d[2] * n>>

\* C25 witness: a king has slid two squares or more, and a king on the
\* board has, in some direction, an empty square next to it, a piece
\* further on and an empty square of the board beyond that piece.
C25_Witness ==
  /\ last.kind = "move"
  /\ last.capture = NoSquare
  /\ board[last.to[1]][last.to[2]].king
  /\ Abs(last.to[1] - last.from[1]) >= 2
  /\ \E row \in Rows, col \in Rows, d \in Diagonals :
       LET occupied == OccupiedAt(board, row, col, d)
       IN /\ board[row][col].king
          /\ 1 \in OnBoardAt(row, col, d) \ occupied
          /\ \E k \in occupied, n \in OnBoardAt(row, col, d) :
               n > k /\ n \notin occupied

\* C26 (as claimed): in every state with the game not over and no chain
\* pending, both colours have a piece, the side to move is red or black and
\* one of its pieces has a non-empty getValidMoves result.
C26_NoStuckGame ==
  ~gameOver /\ ~continueCapture
  => /\ countPieces(board, "red") > 0
     /\ countPieces(board, "black") > 0
     /\ currentPlayer \in Colors
     /\ \E row \in Rows, col \in Rows :
          /\ board[row][col].color = currentPlayer
          /\ getValidMoves(board, row, col) # <<>>

\* C27 (as claimed): while a chain is pending the game is not over, the
\* selected square holds a piece of the side to move, and validMoves is
\* non-empty and holds only captures of that piece.
C27_PendingChain ==
  continueCapture
  => /\ ~gameOver
     /\ selectedSquare # NoSquare
     /\ selectedSquare # NoSquare
        => /\ board[selectedSquare[1]][selectedSquare[2]].color = currentPlayer
           /\ validMoves # <<>>
           /\ OnlyCaptures(validMoves)
           /\ MoveSet(validMoves)
              \subseteq MoveSet(getCaptureMoves(board, selectedSquare[1],
                                                selectedSquare[2]))

\* C28 (as claimed): every move made while a chain is pending is a capture
\* that removes exactly one piece of the opponent of the side that began
\* the chain and no other piece, so that the opponent's pieces bound the
\* moves of a turn; and the move that ends the chain switches the side to
\* move or ends the game.
C28_ChainMovesCapture ==
  /\ [][MoveStep /\ continueCapture
        => LET cap == last'.capture
               rival == Other(turnColor)
           IN /\ cap # NoSquare
              /\ cap # NoSquare => board[cap[1]][cap[2]].color = rival
              /\ countPieces(board', rival) = countPieces(board, rival) - 1
              /\ countPieces(board', turnColor)
                 = countPieces(board, turnColor)]_vars
  /\ [][MoveStep /\ continueCapture /\ ~continueCapture'
        => gameOver' \/ currentPlayer' = Other(last'.player)]_vars

\* C29 (as claimed): if a piece is selected, selectedPiece is the piece on
\* board[selectedSquare] and validMoves is the list of legal moves computed
\* on the current board for selectedSquare, every destination listed an
\* empty square of the board and every captured square listed holding an
\* enemy piece; if nothing is selected, validMoves is empty.
C29_ValidMovesNeverStale ==
  IF selectedSquare # NoSquare
  THEN /\ selectedPiece # Null
       /\ selectedPiece = board[selectedSquare[1]][selectedSquare[2]]
       /\ validMoves = getValidMoves(board, selectedSquare[1],
                                     selectedSquare[2])
       /\ \A m \in MoveSet(validMoves) :
            /\ isValidPosition(m.row, m.col)
            /\ board[m.row][m.col] = Null
            /\ m.capture # NoSquare
               => board[m.capture[1]][m.capture[2]].color
                  = Other(selectedPiece.color)
  ELSE selectedPiece = Null /\ validMoves = <<>>

\* C30: in every reachable state every red piece on row 0 and every black
\* piece on row 7 is a king.
C30_NoManOnPromotionRow ==
  \A col \in Rows :
    /\ board[RedPromotionRow][col].color = "red"
       => board[RedPromotionRow][col].king
    /\ board[BlackPromotionRow][col].color = "black"
       => board[BlackPromotionRow][col].king

\* C30 witness: a man has captured onto its promotion row, and the piece
\* standing there is a king.
C30_Witness ==
  /\ last.kind = "move"
  /\ last.promoted
  /\ last.capture # NoSquare
  /\ last.to[1] = PromotionRow(last.color)
  /\ board[last.to[1]][last.to[2]] = [color |-> last.color, king |-> TRUE]

\* The squares strictly between two squares of one diagonal (none when the
\* two squares are not on one diagonal).
Between(from, to) ==
  IF Abs(to[1] - from[1]) # Abs(to[2] - from[2]) THEN {}
  ELSE LET dRow == IF to[1] > from[1] THEN 1 ELSE -1
           dCol == IF to[2] > from[2] THEN 1 ELSE -1
       IN {<<from[1] + dRow * k, from[2] + dCol * k>> :
           k \in 1 .. (Abs(to[1] - from[1]) - 1)}

\* C31: capture geometry.  For every capture applied, origin and landing
\* square lie on one diagonal, the captured square lies strictly between
\* them, holds a piece of the colour opposite to the mover's and is the only
\* occupied square strictly between them; so the move removes no piece of
\* the mover's colour, and every piece jumped is removed.
C31_CaptureGeometry ==
  [][MoveStep /\ last'.capture # NoSquare
     => LET from == last'.from
            to == last'.to
            cap == last'.capture
            mover == board[from[1]][from[2]]
        IN /\ Abs(to[1] - from[1]) = Abs(to[2] - from[2])
           /\ cap \in Between(from, to)
           /\ board[cap[1]][cap[2]].color = Other(mover.color)
           /\ \A sq \in Between(from, to) \ {cap} : board[sq[1]][sq[2]] = Null
           /\ countPieces(board', mover.color) = countPieces(board, mover.color)
           /\ \A sq \in Between(from, to) : board'[sq[1]][sq[2]] = Null]_vars

\* C31 witness: a king has captured a piece that stood away from it and has
\* landed away from that piece.
C31_Witness ==
  /\ last.kind = "move"
  /\ last.capture # NoSquare
  /\ board[last.to[1]][last.to[2]].king
  /\ Abs(last.capture[1] - last.from[1]) >= 2
  /\ Abs(last.to[1] - last.capture[1]) >= 2
  /\ last.capture \in Between(last.from, last.to)

====
